---- MODULE Spec2Model ----
(***************************************************************************)
(* Playback timeline of DearBagPlayer (src/dearbagplayer/timeline.py).     *)
(*                                                                         *)
(* One clock object is modelled: either a Timeline (continuous clock) or a *)
(* TimelineWithSeries (indexed clock).  Every method is an operator from   *)
(* the object (and the arguments) to the object after the call together    *)
(* with the exception the call raised, if any.  Time values are integers.  *)
(*                                                                         *)
(* Spec is the clock alone.  SpecWidgets puts the TimelineWidgets object   *)
(* of src/dearbagplayer/timeline_widgets.py around a Timeline.  SpecAlias  *)
(* has two TimelineWithSeries objects constructed from the same list.      *)
(* SpecLookup is an indexed clock with its bound setters and lookups only.  *)
(* SpecRenderLoop is a clock rendered every frame with a fixed delta_time   *)
(* and nothing else, as the frame callback of dearbagplayer.py does.        *)
(***************************************************************************)
EXTENDS Integers, Sequences, FiniteSets, TLC

VARIABLES timeline, last, widget, lists, clocks, frame_time

vars == <<timeline, last, widget, lists, clocks, frame_time>>

-----------------------------------------------------------------------------
(* Bounds of the model *)

MaxTime == 1
MaxLen == 2
MaxHead == 3

(* Values offered to constructors, setters and set() *)
Values == -1..MaxTime
(* Durations offered to the constructor and the duration setter *)
Durations == -1..MaxTime
(* Timestamps offered to set() and getIndex() *)
Timestamps == -2..(MaxTime + 1)
(* Playback rates offered to play(): backward, paused, forward, double speed *)
Directions == {-1, 0, 1, 2}
(* Wall-time deltas offered to render() *)
Deltas == 0..2
(* Indices offered to the index setter and getTimestamp() *)
Indices == -2..MaxLen

NonDecreasing(s) == \A i \in 1..(Len(s) - 1) : s[i] <= s[i + 1]

(* Series offered to the constructor and the series setter: non-empty and   *)
(* non-decreasing, as the indexed clock requires.                           *)
SeriesInputs ==
    { s \in UNION { [1..n -> 0..MaxTime] : n \in 1..MaxLen } : NonDecreasing(s) }

-----------------------------------------------------------------------------
(* Python helpers *)

Max(a, b) == IF a >= b THEN a ELSE b
Min(a, b) == IF a <= b THEN a ELSE b
Abs(a) == IF a < 0 THEN -a ELSE a

Ok(obj) == [obj |-> obj, exc |-> "None", ret |-> 0]
Return(obj, value) == [obj |-> obj, exc |-> "None", ret |-> value]
Raise(obj, e) == [obj |-> obj, exc |-> e, ret |-> 0]

(* bisect_left in place of bisect_right: a sample equal to x goes right     *)
RECURSIVE bisect_loop_left(_, _, _, _)
bisect_loop_left(a, x, lo, hi) ==
    IF lo < hi
    THEN LET mid == (lo + hi) \div 2
         IN  IF x <= a[mid + 1]
             THEN bisect_loop_left(a, x, lo, mid)
             ELSE bisect_loop_left(a, x, mid + 1, hi)
    ELSE lo

(* bisect.bisect(a, x): the binary search of bisect_right, lo..hi being    *)
(* 0-based positions as in Python; a[mid] of Python is a[mid + 1] here.    *)
RECURSIVE bisect_loop(_, _, _, _)
bisect_loop(a, x, lo, hi) ==
    IF lo < hi
    THEN LET mid == (lo + hi) \div 2
         IN  IF x < a[mid + 1]
             THEN bisect_loop(a, x, lo, mid)
             ELSE bisect_loop(a, x, mid + 1, hi)
    ELSE lo

bisect(a, x) == bisect_loop(a, x, 0, Len(a))

-----------------------------------------------------------------------------
(* class Timeline *)

(* the validator off by one: -1 passes                                    *)
validDuration_off_by_one(value) == ~(value < -1)

validDuration(value) == ~(value < 0)

(* the validator accepting an end equal to start                           *)
validEndTime_allow_equal(self, value) == ~(value < self.start_time)

validEndTime(self, value) == ~(value <= self.start_time)

(* the constructor starting head at 0 instead of start                     *)
Timeline_init_head_zero(start_time, duration, loop_enabled) ==
    [kind |-> "Timeline",
     start_time |-> start_time,
     duration |-> duration,
     end_time |-> start_time + duration,
     head |-> 0,
     direction |-> 0,
     loop_enabled |-> loop_enabled,
     series |-> << >>,
     index |-> 0]

Timeline_init(start_time, duration, loop_enabled) ==
    [kind |-> "Timeline",
     start_time |-> start_time,
     duration |-> duration,
     end_time |-> start_time + duration,
     head |-> start_time,
     direction |-> 0,
     loop_enabled |-> loop_enabled,
     series |-> << >>,
     index |-> 0]

(* the start setter forgetting to recompute the end                        *)
Timeline_start_set_stale(self, value) == Ok([self EXCEPT !.start_time = value])

Timeline_start_set(self, value) ==
    LET s1 == [self EXCEPT !.start_time = value]
    IN  Ok([s1 EXCEPT !.end_time = s1.start_time + s1.duration])

(* the end setter forgetting to recompute the duration                     *)
Timeline_end_set_stale(self, value) ==
    IF ~validEndTime(self, value)
    THEN Raise(self, "ValueError")
    ELSE Ok([self EXCEPT !.end_time = value])

Timeline_end_set(self, value) ==
    IF ~validEndTime(self, value)
    THEN Raise(self, "ValueError")
    ELSE LET s1 == [self EXCEPT !.end_time = value]
         IN  Ok([s1 EXCEPT !.duration = s1.end_time - s1.start_time])

(* the duration setter forgetting to recompute the end                     *)
Timeline_duration_set_stale(self, value) ==
    IF ~validDuration(value)
    THEN Raise(self, "ValueError")
    ELSE Ok([self EXCEPT !.duration = value])

Timeline_duration_set(self, value) ==
    IF ~validDuration(value)
    THEN Raise(self, "ValueError")
    ELSE LET s1 == [self EXCEPT !.duration = value]
         IN  Ok([s1 EXCEPT !.end_time = s1.start_time + s1.duration])

Timeline_loop(self) == [self EXCEPT !.loop_enabled = ~self.loop_enabled]

Timeline_now(self) == self.head

(* play ignoring the requested rate                                        *)
Timeline_play_default(self, direction) == [self EXCEPT !.direction = 1]

Timeline_play(self, direction) == [self EXCEPT !.direction = direction]

(* pause that also rewinds                                                 *)
Timeline_pause_rewind(self) ==
    [self EXCEPT !.direction = 0, !.head = self.start_time]

Timeline_pause(self) == [self EXCEPT !.direction = 0]

(* stop rewinding to 0 instead of start                                    *)
Timeline_stop_head_zero(self) ==
    LET s1 == Timeline_pause(self)
    IN  [s1 EXCEPT !.head = 0]

(* stop that only pauses                                                   *)
Timeline_stop_keep_head(self) == Timeline_pause(self)

Timeline_stop(self) ==
    LET s1 == Timeline_pause(self)
    IN  [s1 EXCEPT !.head = s1.start_time]

(* set that also pauses                                                    *)
Timeline_set_pausing(self, timestamp) ==
    [self EXCEPT !.head = Max(self.start_time, Min(timestamp, self.end_time)),
                 !.direction = 0]

(* set without the lower clamp                                             *)
Timeline_set_no_floor(self, timestamp) ==
    [self EXCEPT !.head = Min(timestamp, self.end_time)]

Timeline_set(self, timestamp) ==
    [self EXCEPT !.head = Max(self.start_time, Min(timestamp, self.end_time))]

(* render whose looping forward branch does not wrap                       *)
Timeline_render_no_wrap(self, delta_t) ==
    IF self.direction = 0
    THEN self
    ELSE LET s1 == [self EXCEPT !.head = self.head + delta_t * self.direction]
         IN  IF s1.head < s1.start_time
             THEN IF s1.loop_enabled
                  THEN [s1 EXCEPT !.head = s1.head + s1.duration]
                  ELSE Timeline_stop([s1 EXCEPT !.head = s1.start_time])
             ELSE IF s1.head > s1.end_time
             THEN IF s1.loop_enabled
                  THEN s1
                  ELSE Timeline_stop([s1 EXCEPT !.head = s1.duration])
             ELSE s1

(* render whose backward wrap adds the end time instead of the duration    *)
Timeline_render_wrap_end(self, delta_t) ==
    IF self.direction = 0
    THEN self
    ELSE LET s1 == [self EXCEPT !.head = self.head + delta_t * self.direction]
         IN  IF s1.head < s1.start_time
             THEN IF s1.loop_enabled
                  THEN [s1 EXCEPT !.head = s1.head + s1.end_time]
                  ELSE Timeline_stop([s1 EXCEPT !.head = s1.start_time])
             ELSE IF s1.head > s1.end_time
             THEN IF s1.loop_enabled
                  THEN [s1 EXCEPT !.head = s1.head - s1.duration]
                  ELSE Timeline_stop([s1 EXCEPT !.head = s1.duration])
             ELSE s1

(* render without the early return of a paused clock                       *)
Timeline_render_no_guard(self, delta_t) ==
    LET s1 == [self EXCEPT !.head = self.head + delta_t * self.direction]
    IN  IF s1.head < s1.start_time
        THEN IF s1.loop_enabled
             THEN [s1 EXCEPT !.head = s1.head + s1.duration]
             ELSE Timeline_stop([s1 EXCEPT !.head = s1.start_time])
        ELSE IF s1.head > s1.end_time
        THEN IF s1.loop_enabled
             THEN [s1 EXCEPT !.head = s1.head - s1.duration]
             ELSE Timeline_stop([s1 EXCEPT !.head = s1.duration])
        ELSE s1

(* render stopping a looping clock whose window is empty                   *)
Timeline_render_stop_empty(self, delta_t) ==
    IF self.direction = 0
    THEN self
    ELSE LET s1 == [self EXCEPT !.head = self.head + delta_t * self.direction]
         IN  IF s1.head < s1.start_time
             THEN IF s1.loop_enabled /\ s1.duration # 0
                  THEN [s1 EXCEPT !.head = s1.head + s1.duration]
                  ELSE Timeline_stop([s1 EXCEPT !.head = s1.start_time])
             ELSE IF s1.head > s1.end_time
             THEN IF s1.loop_enabled /\ s1.duration # 0
                  THEN [s1 EXCEPT !.head = s1.head - s1.duration]
                  ELSE Timeline_stop([s1 EXCEPT !.head = s1.duration])
             ELSE s1

(* render clamping at a non-looping boundary without stopping              *)
Timeline_render_clamp_only(self, delta_t) ==
    IF self.direction = 0
    THEN self
    ELSE LET s1 == [self EXCEPT !.head = self.head + delta_t * self.direction]
         IN  IF s1.head < s1.start_time
             THEN IF s1.loop_enabled
                  THEN [s1 EXCEPT !.head = s1.head + s1.duration]
                  ELSE [s1 EXCEPT !.head = s1.start_time]
             ELSE IF s1.head > s1.end_time
             THEN IF s1.loop_enabled
                  THEN [s1 EXCEPT !.head = s1.head - s1.duration]
                  ELSE [s1 EXCEPT !.head = s1.end_time]
             ELSE s1

(* render wrapping away from the window                                    *)
Timeline_render_wrap_away(self, delta_t) ==
    IF self.direction = 0
    THEN self
    ELSE LET s1 == [self EXCEPT !.head = self.head + delta_t * self.direction]
         IN  IF s1.head < s1.start_time
             THEN IF s1.loop_enabled
                  THEN [s1 EXCEPT !.head = s1.head - s1.duration]
                  ELSE Timeline_stop([s1 EXCEPT !.head = s1.start_time])
             ELSE IF s1.head > s1.end_time
             THEN IF s1.loop_enabled
                  THEN [s1 EXCEPT !.head = s1.head + s1.duration]
                  ELSE Timeline_stop([s1 EXCEPT !.head = s1.duration])
             ELSE s1

Timeline_render(self, delta_t) ==
    IF self.direction = 0
    THEN self
    ELSE LET s1 == [self EXCEPT !.head = self.head + delta_t * self.direction]
         IN  IF s1.head < s1.start_time
             THEN IF s1.loop_enabled
                  THEN [s1 EXCEPT !.head = s1.head + s1.duration]
                  ELSE Timeline_stop([s1 EXCEPT !.head = s1.start_time])
             ELSE IF s1.head > s1.end_time
             THEN IF s1.loop_enabled
                  THEN [s1 EXCEPT !.head = s1.head - s1.duration]
                  ELSE Timeline_stop([s1 EXCEPT !.head = s1.duration])
             ELSE s1

-----------------------------------------------------------------------------
(* class TimelineWithSeries(Timeline) *)

TimelineWithSeries_init(series, loop_enabled) ==
    LET start == series[1]
        duration == series[Len(series)] - series[1]
        base == Timeline_init(start, duration, loop_enabled)
    IN  [base EXCEPT !.kind = "TimelineWithSeries", !.series = series, !.index = 0]

(* the shift translating head together with the samples                   *)
TimelineWithSeries_shift_with_head(self, offset) ==
    LET s1 == [self EXCEPT !.series = [idx \in 1..Len(self.series) |-> self.series[idx] + offset],
                           !.head = self.head + offset]
        s2 == [s1 EXCEPT !.start_time = s1.series[1]]
    IN  [s2 EXCEPT !.end_time = s2.series[Len(s2.series)]]

(* the shift missing the last sample                                       *)
TimelineWithSeries_shift_but_last(self, offset) ==
    LET s1 == [self EXCEPT !.series = [idx \in 1..Len(self.series) |->
                                          IF idx < Len(self.series)
                                          THEN self.series[idx] + offset
                                          ELSE self.series[idx]]]
        s2 == [s1 EXCEPT !.start_time = s1.series[1]]
    IN  [s2 EXCEPT !.end_time = s2.series[Len(s2.series)]]

TimelineWithSeries_shift(self, offset) ==
    LET s1 == [self EXCEPT !.series = [idx \in 1..Len(self.series) |-> self.series[idx] + offset]]
        s2 == [s1 EXCEPT !.start_time = s1.series[1]]
    IN  [s2 EXCEPT !.end_time = s2.series[Len(s2.series)]]

TimelineWithSeries_start_set(self, value) ==
    Ok(TimelineWithSeries_shift(self, value - self.series[1]))

(* the end setter taking its offset from the first sample                  *)
TimelineWithSeries_end_set_first(self, value) ==
    Ok(TimelineWithSeries_shift(self, value - self.series[1]))

TimelineWithSeries_end_set(self, value) ==
    Ok(TimelineWithSeries_shift(self, value - self.series[Len(self.series)]))

(* the duration property left with the inherited setter                    *)
TimelineWithSeries_duration_set_inherited(self, value) ==
    Timeline_duration_set(self, value)

TimelineWithSeries_duration_set(self, value) == Raise(self, "AttributeError")

(* the series setter keeping the old index                                 *)
TimelineWithSeries_series_set_keep_index(self, series) ==
    Ok([self EXCEPT !.series = series,
                    !.start_time = series[1],
                    !.end_time = series[Len(series)],
                    !.duration = series[Len(series)] - series[1]])

TimelineWithSeries_series_set(self, series) ==
    Ok([self EXCEPT !.series = series,
                    !.index = 0,
                    !.start_time = series[1],
                    !.end_time = series[Len(series)],
                    !.duration = series[Len(series)] - series[1]])

TimelineWithSeries_index_set(self, idx) ==
    IF ~(idx = -1 \/ idx >= 0)
    THEN Raise(self, "AssertionError")
    ELSE LET s1 == IF idx = -1 THEN [self EXCEPT !.index = Len(self.series) - 1] ELSE self
         IN  Ok([s1 EXCEPT !.index = idx])

(* series[index] with Python's negative indexing *)
TimelineWithSeries_getTimestamp(self, index) ==
    LET n == Len(self.series)
    IN  IF index >= 0 /\ index < n THEN Return(self, self.series[index + 1])
        ELSE IF index < 0 /\ index >= -n THEN Return(self, self.series[n + index + 1])
        ELSE Raise(self, "IndexError")

TimelineWithSeries_getIndex(self, timestamp) == bisect(self.series, timestamp) - 1

TimelineWithSeries_set(self, timestamp) ==
    LET s1 == [self EXCEPT !.index = TimelineWithSeries_getIndex(self, timestamp)]
    IN  [s1 EXCEPT !.head = timestamp]

(* render whose forward stop sets the index one past the last sample and   *)
(* whose forward wrap keeps the old index                                   *)
TimelineWithSeries_render_stale_index(self, delta_t) ==
    IF self.direction = 0
    THEN self
    ELSE LET s1 == [self EXCEPT !.head = self.head + delta_t * self.direction]
         IN  IF s1.head < s1.start_time
             THEN IF s1.loop_enabled
                  THEN LET s2 == [s1 EXCEPT !.head = s1.head + s1.duration]
                       IN  [s2 EXCEPT !.index = TimelineWithSeries_getIndex(s2, s2.head)]
                  ELSE Timeline_stop([s1 EXCEPT !.head = s1.start_time, !.index = 0])
             ELSE IF s1.head > s1.end_time
             THEN IF s1.loop_enabled
                  THEN [s1 EXCEPT !.head = s1.head - s1.duration]
                  ELSE Timeline_stop([s1 EXCEPT !.head = s1.duration,
                                                !.index = Len(s1.series)])
             ELSE s1

(* render refreshing the index on every frame                              *)
TimelineWithSeries_render_refresh(self, delta_t) ==
    IF self.direction = 0
    THEN self
    ELSE LET s1 == [self EXCEPT !.head = self.head + delta_t * self.direction]
         IN  IF s1.head < s1.start_time
             THEN IF s1.loop_enabled
                  THEN LET s2 == [s1 EXCEPT !.head = s1.head + s1.duration]
                       IN  [s2 EXCEPT !.index = TimelineWithSeries_getIndex(s2, s2.head)]
                  ELSE Timeline_stop([s1 EXCEPT !.head = s1.start_time, !.index = 0])
             ELSE IF s1.head > s1.end_time
             THEN IF s1.loop_enabled
                  THEN LET s2 == [s1 EXCEPT !.head = s1.head - s1.duration]
                       IN  [s2 EXCEPT !.index = TimelineWithSeries_getIndex(s2, s2.head)]
                  ELSE Timeline_stop([s1 EXCEPT !.head = s1.duration,
                                                !.index = Len(s1.series) - 1])
             ELSE [s1 EXCEPT !.index = TimelineWithSeries_getIndex(s1, s1.head)]

TimelineWithSeries_render(self, delta_t) ==
    IF self.direction = 0
    THEN self
    ELSE LET s1 == [self EXCEPT !.head = self.head + delta_t * self.direction]
         IN  IF s1.head < s1.start_time
             THEN IF s1.loop_enabled
                  THEN LET s2 == [s1 EXCEPT !.head = s1.head + s1.duration]
                       IN  [s2 EXCEPT !.index = TimelineWithSeries_getIndex(s2, s2.head)]
                  ELSE Timeline_stop([s1 EXCEPT !.head = s1.start_time, !.index = 0])
             ELSE IF s1.head > s1.end_time
             THEN IF s1.loop_enabled
                  THEN LET s2 == [s1 EXCEPT !.head = s1.head - s1.duration]
                       IN  [s2 EXCEPT !.index = TimelineWithSeries_getIndex(s2, s2.head)]
                  ELSE Timeline_stop([s1 EXCEPT !.head = s1.duration,
                                                !.index = Len(s1.series) - 1])
             ELSE s1

-----------------------------------------------------------------------------
(* Method resolution: the override of the object's class is the one called *)

IsSeries(self) == self.kind = "TimelineWithSeries"

start_set(self, value) ==
    IF IsSeries(self) THEN TimelineWithSeries_start_set(self, value)
    ELSE Timeline_start_set(self, value)

end_set(self, value) ==
    IF IsSeries(self) THEN TimelineWithSeries_end_set(self, value)
    ELSE Timeline_end_set(self, value)

duration_set(self, value) ==
    IF IsSeries(self) THEN TimelineWithSeries_duration_set(self, value)
    ELSE Timeline_duration_set(self, value)

set(self, timestamp) ==
    IF IsSeries(self) THEN TimelineWithSeries_set(self, timestamp)
    ELSE Timeline_set(self, timestamp)

render(self, delta_t) ==
    IF IsSeries(self) THEN TimelineWithSeries_render(self, delta_t)
    ELSE Timeline_render(self, delta_t)

-----------------------------------------------------------------------------
(* The caller: one call per step.  last records the call that just          *)
(* returned: its name, its arguments, the exception raised, the value       *)
(* returned and, for render, the branch taken.  A constructor call records  *)
(* duration in arg, start_time in arg2 and loop_enabled in flag.            *)

Call(op, arg, sarg, res) ==
    [op |-> op, arg |-> arg, sarg |-> sarg, exc |-> res.exc, ret |-> res.ret,
     branch |-> "-", arg2 |-> 0, flag |-> FALSE, target |-> "-"]

(* The branch of render the call went through (lines 129-152 and 277-304)  *)
RenderBranch(self, delta_t) ==
    LET h == self.head + delta_t * self.direction
    IN  IF self.direction = 0 THEN "paused"
        ELSE IF h < self.start_time
             THEN (IF self.loop_enabled THEN "backward_wrap" ELSE "backward_stop")
        ELSE IF h > self.end_time
             THEN (IF self.loop_enabled THEN "forward_wrap" ELSE "forward_stop")
        ELSE "inside"

(* Spec has no widget object and no second clock *)
NoWidget == "None"
NoLists == << >>
NoClocks == << >>
NoRenderLoop == 0

Init ==
    /\ widget = NoWidget
    /\ lists = NoLists
    /\ clocks = NoClocks
    /\ frame_time = NoRenderLoop
    /\ \/ \E s \in Values, d \in Durations, l \in BOOLEAN :
            /\ validDuration(d)
            /\ timeline = Timeline_init(s, d, l)
            /\ last = [Call("Timeline", d, << >>, Ok(timeline))
                        EXCEPT !.arg2 = s, !.flag = l]
       \/ \E s \in SeriesInputs, l \in BOOLEAN :
            /\ timeline = TimelineWithSeries_init(s, l)
            /\ last = [Call("TimelineWithSeries", 0, s, Ok(timeline))
                        EXCEPT !.flag = l]

(* timeline = Timeline(start_time, duration, loop_enabled); a constructor   *)
(* that raises leaves the name bound to the previous object.                *)
ConstructTimeline ==
    /\ UNCHANGED <<widget, lists, clocks, frame_time>>
    /\ \E s \in Values, d \in Durations, l \in BOOLEAN :
        LET res == IF validDuration(d) THEN Ok(Timeline_init(s, d, l))
                   ELSE Raise(timeline, "ValueError")
        IN  /\ timeline' = res.obj
            /\ last' = [Call("Timeline", d, << >>, res)
                         EXCEPT !.arg2 = s, !.flag = l]

SetStart ==
    /\ UNCHANGED <<widget, lists, clocks, frame_time>>
    /\ \E v \in Values :
        LET res == start_set(timeline, v)
        IN  /\ timeline' = res.obj
            /\ last' = Call("start", v, << >>, res)

SetEnd ==
    /\ UNCHANGED <<widget, lists, clocks, frame_time>>
    /\ \E v \in Values :
        LET res == end_set(timeline, v)
        IN  /\ timeline' = res.obj
            /\ last' = Call("end", v, << >>, res)

SetDuration ==
    /\ UNCHANGED <<widget, lists, clocks, frame_time>>
    /\ \E v \in Durations :
        LET res == duration_set(timeline, v)
        IN  /\ timeline' = res.obj
            /\ last' = Call("duration", v, << >>, res)

SetSeries ==
    /\ UNCHANGED <<widget, lists, clocks, frame_time>>
    /\ IsSeries(timeline)
    /\ \E s \in SeriesInputs :
        LET res == TimelineWithSeries_series_set(timeline, s)
        IN  /\ timeline' = res.obj
            /\ last' = Call("series", 0, s, res)

SetIndex ==
    /\ UNCHANGED <<widget, lists, clocks, frame_time>>
    /\ IsSeries(timeline)
    /\ \E i \in Indices :
        LET res == TimelineWithSeries_index_set(timeline, i)
        IN  /\ timeline' = res.obj
            /\ last' = Call("index", i, << >>, res)

Loop ==
    /\ UNCHANGED <<widget, lists, clocks, frame_time>>
    /\ timeline' = Timeline_loop(timeline)
    /\ last' = Call("loop", 0, << >>, Ok(timeline'))

Now ==
    /\ UNCHANGED <<widget, lists, clocks, frame_time>>
    /\ UNCHANGED timeline
    /\ last' = Call("now", 0, << >>, Return(timeline, Timeline_now(timeline)))

Play ==
    /\ UNCHANGED <<widget, lists, clocks, frame_time>>
    /\ \E d \in Directions :
        /\ timeline' = Timeline_play(timeline, d)
        /\ last' = Call("play", d, << >>, Ok(timeline'))

Pause ==
    /\ UNCHANGED <<widget, lists, clocks, frame_time>>
    /\ timeline' = Timeline_pause(timeline)
    /\ last' = Call("pause", 0, << >>, Ok(timeline'))

Stop ==
    /\ UNCHANGED <<widget, lists, clocks, frame_time>>
    /\ timeline' = Timeline_stop(timeline)
    /\ last' = Call("stop", 0, << >>, Ok(timeline'))

Set ==
    /\ UNCHANGED <<widget, lists, clocks, frame_time>>
    /\ \E t \in Timestamps :
        /\ timeline' = set(timeline, t)
        /\ last' = Call("set", t, << >>, Ok(timeline'))

Render ==
    /\ UNCHANGED <<widget, lists, clocks, frame_time>>
    /\ \E dt \in Deltas :
        /\ Abs(render(timeline, dt).head) <= MaxHead
        /\ timeline' = render(timeline, dt)
        /\ last' = [Call("render", dt, << >>, Ok(timeline'))
                      EXCEPT !.branch = RenderBranch(timeline, dt)]

GetIndex ==
    /\ UNCHANGED <<widget, lists, clocks, frame_time>>
    /\ IsSeries(timeline)
    /\ \E t \in Timestamps :
        /\ UNCHANGED timeline
        /\ last' = Call("getIndex", t, << >>,
                        Return(timeline, TimelineWithSeries_getIndex(timeline, t)))

GetTimestamp ==
    /\ UNCHANGED <<widget, lists, clocks, frame_time>>
    /\ IsSeries(timeline)
    /\ \E i \in Indices :
        LET res == TimelineWithSeries_getTimestamp(timeline, i)
        IN  /\ timeline' = res.obj
            /\ last' = Call("getTimestamp", i, << >>, res)

Next ==
    \/ ConstructTimeline
    \/ SetStart
    \/ SetEnd
    \/ SetDuration
    \/ SetSeries
    \/ SetIndex
    \/ Loop
    \/ Now
    \/ Play
    \/ Pause
    \/ Stop
    \/ Set
    \/ Render
    \/ GetIndex
    \/ GetTimestamp

Spec == Init /\ [][Next]_vars

-----------------------------------------------------------------------------
(* TimelineWidgets (src/dearbagplayer/timeline_widgets.py) around a        *)
(* Timeline.  The widget object holds its clock in the field timeline      *)
(* (_timeline).  created says that createWidgets has assigned the bars,    *)
(* the speed box and the buttons; until then those slots are unset and     *)
(* reading one raises AttributeError.  speed is the value of the speed     *)
(* box and *_enabled the state of the dearpygui buttons; they are          *)
(* meaningful only when created.                                           *)

NoTimeline == "None"

(* Values the user can drag the speed box to (its range is -5..5)          *)
SpeedBoxValues == {-1, 0, 1}

(* Durations a widget is constructed with                                  *)
WidgetDurations == 0..MaxTime

(* A dearpygui call on an existing item returns; on timeline_bar2 == None  *)
(* the outcome is the library's                                            *)
DpgOutcomes(self) == IF self.created THEN {"None"} ELSE {"None", "Exception"}

TimelineWidgets_init(start_time, duration, loop_enabled) ==
    [timeline |-> Timeline_init(start_time, duration, loop_enabled),
     created |-> FALSE,
     is_played |-> FALSE,
     is_stopped |-> FALSE,
     speed |-> 1,
     play_enabled |-> TRUE,
     pause_enabled |-> TRUE,
     stop_enabled |-> TRUE]

TimelineWidgets_duration_set(self, value) ==
    LET res == Timeline_duration_set(self.timeline, value)
    IN  [res EXCEPT !.obj = [self EXCEPT !.timeline = res.obj]]

TimelineWidgets_resetIsStopped(self) == [self EXCEPT !.is_stopped = FALSE]

(* resetLimits validating before it assigns                                *)
TimelineWidgets_resetLimits_atomic(self, min_t, max_t, dpg) ==
    IF max_t <= min_t
    THEN Raise(self, "ValueError")
    ELSE Ok([self EXCEPT !.timeline.start_time = min_t,
                         !.timeline.end_time = max_t,
                         !.timeline.duration = max_t - min_t])

TimelineWidgets_resetLimits(self, min_t, max_t, dpg) ==
    LET r1 == Timeline_start_set(self.timeline, min_t)
        r2 == Timeline_end_set(r1.obj, max_t)
        s2 == [self EXCEPT !.timeline = r2.obj]
    IN  IF r2.exc # "None" THEN Raise(s2, r2.exc)
        ELSE IF dpg # "None" THEN Raise(s2, dpg)
        ELSE Ok(s2)

(* The bars, the speed box and the three buttons are assigned, then the    *)
(* default of the loop checkbox reads _timeline.loop_enabled, which        *)
(* Timeline.__slots__ does not have: the pause button is never disabled    *)
TimelineWidgets_createWidgets(self) ==
    Raise([self EXCEPT !.created = TRUE,
                       !.speed = 1,
                       !.play_enabled = TRUE,
                       !.pause_enabled = TRUE,
                       !.stop_enabled = TRUE],
          "AttributeError")

(* app_data is the value the speed box was dragged to                      *)
TimelineWidgets_speedCb(self, app_data) ==
    IF ~self.created THEN Raise(self, "AttributeError")
    ELSE LET s1 == [self EXCEPT !.speed = app_data]
         IN  IF ~s1.play_enabled
             THEN Ok([s1 EXCEPT !.timeline = Timeline_play(s1.timeline, s1.speed)])
             ELSE Ok(s1)

(* Timeline has no attribute loop_enabled to assign                        *)
TimelineWidgets_loopCb(self, app_data) == Raise(self, "AttributeError")

(* play without the zero-duration guard                                    *)
TimelineWidgets_play_unguarded(self) ==
    LET s1 == [self EXCEPT !.is_played = TRUE, !.is_stopped = FALSE]
    IN  IF ~s1.created THEN Raise(s1, "AttributeError")
        ELSE LET s2 == [s1 EXCEPT !.timeline = Timeline_play(s1.timeline, s1.speed)]
             IN  IF s2.play_enabled
                 THEN Ok([s2 EXCEPT !.play_enabled = FALSE,
                                    !.pause_enabled = TRUE,
                                    !.stop_enabled = TRUE])
                 ELSE Ok(s2)

TimelineWidgets_play(self) ==
    IF self.timeline.duration = 0 THEN Ok(self)
    ELSE LET s1 == [self EXCEPT !.is_played = TRUE, !.is_stopped = FALSE]
         IN  IF ~s1.created THEN Raise(s1, "AttributeError")
             ELSE LET s2 == [s1 EXCEPT !.timeline = Timeline_play(s1.timeline, s1.speed)]
                  IN  IF s2.play_enabled
                      THEN Ok([s2 EXCEPT !.play_enabled = FALSE,
                                         !.pause_enabled = TRUE,
                                         !.stop_enabled = TRUE])
                      ELSE Ok(s2)

TimelineWidgets_pause(self) ==
    LET s1 == [self EXCEPT !.is_played = FALSE, !.is_stopped = FALSE,
                           !.timeline = Timeline_pause(self.timeline)]
    IN  IF ~s1.created THEN Raise(s1, "AttributeError")
        ELSE IF s1.pause_enabled
             THEN Ok([s1 EXCEPT !.pause_enabled = FALSE,
                                !.play_enabled = TRUE,
                                !.stop_enabled = TRUE])
             ELSE Ok(s1)

(* stop leaving is_played as it was                                       *)
TimelineWidgets_stop_still_played(self) ==
    LET s1 == [self EXCEPT !.is_stopped = TRUE,
                           !.timeline = Timeline_stop(self.timeline)]
    IN  IF ~s1.created THEN Raise(s1, "AttributeError")
        ELSE IF s1.stop_enabled
             THEN Ok([s1 EXCEPT !.stop_enabled = FALSE,
                                !.pause_enabled = FALSE,
                                !.play_enabled = TRUE])
             ELSE Ok(s1)

TimelineWidgets_stop(self) ==
    LET s1 == [self EXCEPT !.is_played = FALSE, !.is_stopped = TRUE,
                           !.timeline = Timeline_stop(self.timeline)]
    IN  IF ~s1.created THEN Raise(s1, "AttributeError")
        ELSE IF s1.stop_enabled
             THEN Ok([s1 EXCEPT !.stop_enabled = FALSE,
                                !.pause_enabled = FALSE,
                                !.play_enabled = TRUE])
             ELSE Ok(s1)

(* Without the bars nothing is done.  With them, the stop condition reads  *)
(* is_played first and then _timeline.loop_enabled, which does not exist   *)
TimelineWidgets_updateTimeline(self, now) ==
    IF ~self.created THEN Ok(self)
    ELSE IF self.is_played THEN Raise(self, "AttributeError")
    ELSE Ok(self)

TimelineWidgets_render(self, delta_time) ==
    LET s1 == [self EXCEPT !.timeline = Timeline_render(self.timeline, delta_time)]
    IN  TimelineWidgets_updateTimeline(s1, Timeline_now(s1.timeline))

InitWidgets ==
    /\ timeline = NoTimeline
    /\ lists = NoLists
    /\ clocks = NoClocks
    /\ frame_time = NoRenderLoop
    /\ \E s \in Values, d \in WidgetDurations, l \in BOOLEAN :
            /\ widget = TimelineWidgets_init(s, d, l)
            /\ last = [Call("TimelineWidgets", d, << >>, Ok(widget))
                        EXCEPT !.arg2 = s, !.flag = l]

WidgetsCreateWidgets ==
    /\ UNCHANGED <<timeline, lists, clocks, frame_time>>
    /\ LET res == TimelineWidgets_createWidgets(widget)
       IN  /\ widget' = res.obj
           /\ last' = Call("widgets.createWidgets", 0, << >>, res)

WidgetsSetDuration ==
    /\ UNCHANGED <<timeline, lists, clocks, frame_time>>
    /\ \E v \in Durations :
        LET res == TimelineWidgets_duration_set(widget, v)
        IN  /\ widget' = res.obj
            /\ last' = Call("widgets.duration", v, << >>, res)

WidgetsResetLimits ==
    /\ UNCHANGED <<timeline, lists, clocks, frame_time>>
    /\ \E min_t \in Values, max_t \in Values, dpg \in DpgOutcomes(widget) :
        LET res == TimelineWidgets_resetLimits(widget, min_t, max_t, dpg)
        IN  /\ widget' = res.obj
            /\ last' = [Call("widgets.resetLimits", min_t, << >>, res)
                          EXCEPT !.arg2 = max_t]

WidgetsResetIsStopped ==
    /\ UNCHANGED <<timeline, lists, clocks, frame_time>>
    /\ widget' = TimelineWidgets_resetIsStopped(widget)
    /\ last' = Call("widgets.resetIsStopped", 0, << >>, Ok(widget'))

WidgetsSpeedCb ==
    /\ UNCHANGED <<timeline, lists, clocks, frame_time>>
    /\ \E v \in SpeedBoxValues :
        LET res == TimelineWidgets_speedCb(widget, v)
        IN  /\ widget' = res.obj
            /\ last' = Call("widgets.speedCb", v, << >>, res)

WidgetsLoopCb ==
    /\ UNCHANGED <<timeline, lists, clocks, frame_time>>
    /\ \E v \in BOOLEAN :
        LET res == TimelineWidgets_loopCb(widget, v)
        IN  /\ widget' = res.obj
            /\ last' = [Call("widgets.loopCb", 0, << >>, res) EXCEPT !.flag = v]

WidgetsPlay ==
    /\ UNCHANGED <<timeline, lists, clocks, frame_time>>
    /\ LET res == TimelineWidgets_play(widget)
       IN  /\ widget' = res.obj
           /\ last' = Call("widgets.play", 0, << >>, res)

WidgetsPause ==
    /\ UNCHANGED <<timeline, lists, clocks, frame_time>>
    /\ LET res == TimelineWidgets_pause(widget)
       IN  /\ widget' = res.obj
           /\ last' = Call("widgets.pause", 0, << >>, res)

WidgetsStop ==
    /\ UNCHANGED <<timeline, lists, clocks, frame_time>>
    /\ LET res == TimelineWidgets_stop(widget)
       IN  /\ widget' = res.obj
           /\ last' = Call("widgets.stop", 0, << >>, res)

WidgetsRender ==
    /\ UNCHANGED <<timeline, lists, clocks, frame_time>>
    /\ \E dt \in Deltas :
        LET res == TimelineWidgets_render(widget, dt)
        IN  /\ Abs(res.obj.timeline.head) <= MaxHead
            /\ widget' = res.obj
            /\ last' = [Call("widgets.render", dt, << >>, res)
                          EXCEPT !.branch = RenderBranch(widget.timeline, dt)]

NextWidgets ==
    \/ WidgetsCreateWidgets
    \/ WidgetsSetDuration
    \/ WidgetsResetLimits
    \/ WidgetsResetIsStopped
    \/ WidgetsSpeedCb
    \/ WidgetsLoopCb
    \/ WidgetsPlay
    \/ WidgetsPause
    \/ WidgetsStop
    \/ WidgetsRender

SpecWidgets == InitWidgets /\ [][NextWidgets]_vars

-----------------------------------------------------------------------------
(* Two TimelineWithSeries objects and the lists of their caller.  lists    *)
(* is the heap: each list object the caller holds, by name.  A clock's     *)
(* _series slot holds a reference, the name of a list; the constructor     *)
(* and the series setter store the caller's list itself, and the start     *)
(* and end setters write the shifted samples into that list in place.      *)

ListIds == {"series", "series2"}

ClockIds == {"a", "b"}

(* the clock c with its _series slot dereferenced                          *)
View(c) == [clocks[c] EXCEPT !.series = lists[clocks[c].series]]

(* the heap and the clock c after a call on c that returned res            *)
Store(c, res) ==
    /\ lists' = [lists EXCEPT ![clocks[c].series] = res.obj.series]
    /\ clocks' = [clocks EXCEPT ![c] = [res.obj EXCEPT !.series = clocks[c].series]]

InitAlias ==
    /\ timeline = NoTimeline
    /\ widget = NoWidget
    /\ frame_time = NoRenderLoop
    /\ \E s \in SeriesInputs, s2 \in SeriesInputs, l \in BOOLEAN :
            /\ lists = [id \in ListIds |-> IF id = "series" THEN s ELSE s2]
            /\ clocks = [c \in ClockIds |->
                            [TimelineWithSeries_init(s, l) EXCEPT !.series = "series"]]
            /\ last = [Call("TimelineWithSeries", 0, s, Ok(clocks["b"]))
                        EXCEPT !.flag = l, !.target = "b"]

AliasSetStart ==
    /\ UNCHANGED <<timeline, widget, frame_time>>
    /\ \E c \in ClockIds, v \in Values :
        LET res == TimelineWithSeries_start_set(View(c), v)
        IN  /\ Store(c, res)
            /\ last' = [Call("start", v, << >>, res) EXCEPT !.target = c]

AliasSetEnd ==
    /\ UNCHANGED <<timeline, widget, frame_time>>
    /\ \E c \in ClockIds, v \in Values :
        LET res == TimelineWithSeries_end_set(View(c), v)
        IN  /\ Store(c, res)
            /\ last' = [Call("end", v, << >>, res) EXCEPT !.target = c]

(* the series setter stores the reference it is given                      *)
AliasSetSeries ==
    /\ UNCHANGED <<timeline, widget, lists, frame_time>>
    /\ \E c \in ClockIds, id \in ListIds :
        LET res == TimelineWithSeries_series_set(View(c), lists[id])
        IN  /\ clocks' = [clocks EXCEPT ![c] = [res.obj EXCEPT !.series = id]]
            /\ last' = [Call("series", 0, lists[id], res) EXCEPT !.target = c]

AliasGetIndex ==
    /\ UNCHANGED <<timeline, widget, lists, clocks, frame_time>>
    /\ \E c \in ClockIds, t \in Timestamps :
        last' = [Call("getIndex", t, << >>,
                      Return(clocks[c], TimelineWithSeries_getIndex(View(c), t)))
                   EXCEPT !.target = c]

NextAlias ==
    \/ AliasSetStart
    \/ AliasSetEnd
    \/ AliasSetSeries
    \/ AliasGetIndex

SpecAlias == InitAlias /\ [][NextAlias]_vars

-----------------------------------------------------------------------------
(* An indexed clock with only its bound setters and its lookups: the       *)
(* series and what getIndex and getTimestamp read from it.                 *)

InitLookup ==
    /\ widget = NoWidget
    /\ lists = NoLists
    /\ clocks = NoClocks
    /\ frame_time = NoRenderLoop
    /\ \E s \in SeriesInputs, l \in BOOLEAN :
            /\ timeline = TimelineWithSeries_init(s, l)
            /\ last = [Call("TimelineWithSeries", 0, s, Ok(timeline))
                        EXCEPT !.flag = l]

NextLookup ==
    \/ SetStart
    \/ SetEnd
    \/ SetSeries
    \/ GetIndex
    \/ GetTimestamp

SpecLookup == InitLookup /\ [][NextLookup]_vars

-----------------------------------------------------------------------------
(* The render loop: render(delta_time) once per frame and no other call.   *)
(* The clock starts in a state the methods can leave it in: constructed,   *)
(* head placed with set, bounds moved with the start and end setters       *)
(* (which leave head where it was), one earlier render at some rate (a     *)
(* looping overshoot can leave head several periods away), then play.      *)

(* Frame times of a running loop                                           *)
FrameDeltas == 1..2

InitRenderLoop ==
    /\ widget = NoWidget
    /\ lists = NoLists
    /\ clocks = NoClocks
    /\ frame_time \in FrameDeltas
    /\ \E direction \in Directions, h \in Timestamps, v \in Values, l \in BOOLEAN,
          d0 \in Directions, dt0 \in Deltas :
        /\ \/ \E s \in Values, d \in Durations, e \in Values :
                /\ validDuration(d)
                /\ LET t1 == Timeline_set(Timeline_init(s, d, l), h)
                       t2 == Timeline_start_set(t1, v).obj
                       t3 == Timeline_end_set(t2, e).obj
                       t4 == Timeline_render(Timeline_play(t3, d0), dt0)
                   IN  timeline = Timeline_play(t4, direction)
           \/ \E s \in SeriesInputs :
                LET t1 == TimelineWithSeries_set(TimelineWithSeries_init(s, l), h)
                    t2 == TimelineWithSeries_start_set(t1, v).obj
                    t4 == TimelineWithSeries_render(Timeline_play(t2, d0), dt0)
                IN  timeline = Timeline_play(t4, direction)
        /\ Abs(timeline.head) <= MaxHead
        /\ last = Call("play", direction, << >>, Ok(timeline))

RenderLoopTick ==
    /\ UNCHANGED <<widget, lists, clocks, frame_time>>
    /\ Abs(render(timeline, frame_time).head) <= MaxHead
    /\ timeline' = render(timeline, frame_time)
    /\ last' = [Call("render", frame_time, << >>, Ok(timeline'))
                  EXCEPT !.branch = RenderBranch(timeline, frame_time)]

NextRenderLoop == RenderLoopTick

(* a frame is rendered as long as the loop runs                            *)
SpecRenderLoop == InitRenderLoop /\ [][NextRenderLoop]_vars /\ WF_vars(RenderLoopTick)

-----------------------------------------------------------------------------
(* Vocabulary of the properties *)

IsContinuous(self) == self.kind = "Timeline"

InWindow(self) ==
    self.start_time <= Timeline_now(self) /\ Timeline_now(self) <= self.end_time

Clamp(t, lo, hi) == IF t < lo THEN lo ELSE IF t > hi THEN hi ELSE t

(* the displacement of a render(delta_t) call on self *)
Step(self, delta_t) == delta_t * self.direction

-----------------------------------------------------------------------------
C2_DurationConsistent ==
    timeline.end_time - timeline.start_time = timeline.duration

C2_Witness ==
    /\ IsContinuous(timeline)
    /\ last.op = "end"
    /\ last.exc = "None"
    /\ timeline.duration = 1
    /\ timeline.start_time # 0

(* C3: a continuous clock always has end >= start and duration >= 0, also  *)
(* after constructor and setter calls that raise                           *)
C3_BoundsOrdered ==
    IsContinuous(timeline) =>
        /\ timeline.end_time >= timeline.start_time
        /\ timeline.duration >= 0

C3_Witness ==
    /\ IsContinuous(timeline)
    /\ last.op = "Timeline"
    /\ last.exc = "ValueError"

(* C4: on a continuous clock set(t) never fails and the following now()    *)
(* returns clamp(t, start, end)                                            *)
C4_SetClamps ==
    [][ (last'.op = "set" /\ IsContinuous(timeline)) =>
          /\ last'.exc = "None"
          /\ Timeline_now(timeline')
                = Clamp(last'.arg, timeline.start_time, timeline.end_time)
      ]_vars

C4_Witness ==
    /\ IsContinuous(timeline)
    /\ last.op = "set"
    /\ last.arg < timeline.start_time
    /\ timeline.head = timeline.start_time
    /\ timeline.start_time < timeline.end_time

(* C5: on an indexed clock set(t) clamps like the base clock: afterwards   *)
(* now() == clamp(t, start, end) and index == getIndex(now())              *)
C5_SeriesSetClamps ==
    [][ (last'.op = "set" /\ IsSeries(timeline)) =>
          /\ Timeline_now(timeline')
                = Clamp(last'.arg, timeline.start_time, timeline.end_time)
          /\ timeline'.index
                = TimelineWithSeries_getIndex(timeline', Timeline_now(timeline'))
      ]_vars

(* C6: with looping off, a render that moves head past end leaves now() at *)
(* the forward clamp value (end; the assignment of line 150 uses duration, *)
(* either is accepted here) and direction == 0                             *)
C6_ForwardStopAtEnd ==
    [][ ( /\ last'.op = "render"
          /\ IsContinuous(timeline)
          /\ ~timeline.loop_enabled
          /\ timeline.direction # 0
          /\ timeline.head + Step(timeline, last'.arg) > timeline.end_time ) =>
          /\ Timeline_now(timeline') \in {timeline.end_time, timeline.duration}
          /\ timeline'.direction = 0
      ]_vars

(* C7: with looping off, a render made while playing that moves head below *)
(* start or above end leaves the clock stopped: direction == 0 and         *)
(* now() == start, at either boundary and for both clock kinds             *)
C7_BoundaryStops ==
    [][ ( /\ last'.op = "render"
          /\ ~timeline.loop_enabled
          /\ timeline.direction # 0
          /\ \/ timeline.head + Step(timeline, last'.arg) < timeline.start_time
             \/ timeline.head + Step(timeline, last'.arg) > timeline.end_time ) =>
          /\ timeline'.direction = 0
          /\ Timeline_now(timeline') = timeline'.start_time
          /\ timeline'.start_time = timeline.start_time
      ]_vars

C7_Witness ==
    /\ last.op = "render"
    /\ last.branch = "forward_stop"
    /\ timeline.duration # timeline.start_time
    /\ timeline.duration > 0

(* C8: with looping on, head in [start, end] and a step s with             *)
(* |s| <= duration, render leaves now() == head+s if that is in the        *)
(* window, head+s-duration if head+s > end, head+s+duration if             *)
(* head+s < start; the result is in the window and direction is unchanged  *)
C8_LoopWraps ==
    [][ ( /\ last'.op = "render"
          /\ timeline.loop_enabled
          /\ InWindow(timeline)
          /\ Abs(Step(timeline, last'.arg)) <= timeline.duration ) =>
          LET h == timeline.head + Step(timeline, last'.arg)
          IN  /\ Timeline_now(timeline')
                    = IF h > timeline.end_time THEN h - timeline.duration
                      ELSE IF h < timeline.start_time THEN h + timeline.duration
                      ELSE h
              /\ InWindow(timeline')
              /\ timeline'.direction = timeline.direction
      ]_vars

C8_Witness ==
    /\ last.op = "render"
    /\ last.branch = "backward_wrap"
    /\ InWindow(timeline)
    /\ timeline.start_time # 0
    /\ timeline.head # timeline.end_time

(* C9: with direction == 0 render(delta_t) changes nothing, on both clock  *)
(* kinds and also when head lies outside [start, end]                      *)
C9_PausedRenderNoOp ==
    [][ (last'.op = "render" /\ timeline.direction = 0) => timeline' = timeline ]_vars

C9_Witness ==
    /\ last.op = "render"
    /\ last.branch = "paused"
    /\ last.arg # 0
    /\ ~InWindow(timeline)

(* C10: on a non-empty non-decreasing series getIndex(t) is the index of   *)
(* the greatest sample <= t, and -1 exactly when t is below every sample;  *)
(* on [0..9] getIndex(4.5) == 4, getIndex(-1) == -1, getIndex(9.5) == 9    *)
(* (checked on the series and the timestamps doubled)                      *)
Series0to9Doubled == [i \in 1..10 |-> 2 * (i - 1)]

C10_GetIndexGreatestLE ==
    /\ IsSeries(timeline) =>
         \A t \in Timestamps :
            LET i == TimelineWithSeries_getIndex(timeline, t)
                n == Len(timeline.series)
            IN  /\ i \in -1..(n - 1)
                /\ i >= 0 => timeline.series[i + 1] <= t
                /\ i < n - 1 => timeline.series[i + 2] > t
                /\ (i = -1) <=> (\A k \in 1..n : t < timeline.series[k])
    /\ TimelineWithSeries_getIndex([series |-> Series0to9Doubled], 9) = 4
    /\ TimelineWithSeries_getIndex([series |-> Series0to9Doubled], -2) = -1
    /\ TimelineWithSeries_getIndex([series |-> Series0to9Doubled], 19) = 9

C10_Witness ==
    /\ IsSeries(timeline)
    /\ last.op = "getIndex"
    /\ last.ret = 0
    /\ Len(timeline.series) = 2
    /\ timeline.series[1] = last.arg
    /\ timeline.series[2] > last.arg

-----------------------------------------------------------------------------
(* Vocabulary of the properties about the indexed clock *)

StrictlyAscending(s) == \A i \in 1..(Len(s) - 1) : s[i] < s[i + 1]

(* a render(delta_t) call on self moves head below start / above end *)
MovesBelow(self, delta_t) ==
    self.direction # 0 /\ self.head + Step(self, delta_t) < self.start_time

MovesAbove(self, delta_t) ==
    /\ self.direction # 0
    /\ ~MovesBelow(self, delta_t)
    /\ self.head + Step(self, delta_t) > self.end_time

IndexFresh(self) == self.index = TimelineWithSeries_getIndex(self, Timeline_now(self))

(* s translated by offset *)
Shifted(s, offset) == [i \in 1..Len(s) |-> s[i] + offset]

Series0to9 == [i \in 1..10 |-> i - 1]

-----------------------------------------------------------------------------
(* C11: getTimestamp(i) returns series[i] when 0 <= i < len(series) and    *)
(* fails with an out-of-range error for every other integer i, every       *)
(* negative i such as -1 included                                          *)
C11_GetTimestampRange ==
    [][ last'.op = "getTimestamp" =>
          IF 0 <= last'.arg /\ last'.arg < Len(timeline.series)
          THEN last'.exc = "None" /\ last'.ret = timeline.series[last'.arg + 1]
          ELSE last'.exc = "IndexError"
      ]_vars

(* C12: on an indexed clock start = v (end = v) translates the whole       *)
(* series by v - series[0] (v - series[-1]): length and spacings are kept, *)
(* start == series[0] == v (end == series[-1] == v), the other bound is    *)
(* the other end of the shifted series and duration is unchanged; on       *)
(* [0..9], end = 5 gives series [-4..5] and start == -4                    *)
C12_SettersShiftSeries ==
    [][ (last'.op \in {"start", "end"} /\ IsSeries(timeline)) =>
          LET n == Len(timeline.series)
              v == last'.arg
              o == IF last'.op = "start" THEN v - timeline.series[1]
                   ELSE v - timeline.series[n]
              ex == TimelineWithSeries_end_set(TimelineWithSeries_init(Series0to9, TRUE), 5).obj
          IN  /\ last'.exc = "None"
              /\ timeline'.series = Shifted(timeline.series, o)
              /\ timeline'.start_time = timeline'.series[1]
              /\ timeline'.end_time = timeline'.series[n]
              /\ last'.op = "start" => timeline'.start_time = v
              /\ last'.op = "end" => timeline'.end_time = v
              /\ timeline'.duration = timeline.duration
              /\ ex.series = Shifted(Series0to9, -4)
              /\ ex.start_time = -4
              /\ ex.end_time = 5
      ]_vars

C12_Witness ==
    /\ IsSeries(timeline)
    /\ last.op = "end"
    /\ Len(timeline.series) = 2
    /\ timeline.series[1] < timeline.series[2]
    /\ timeline.series[1] < 0
    /\ timeline.end_time = last.arg

(* C13: on an indexed clock an attempt to set duration always ends in an   *)
(* error surfaced to the caller, for every value, and leaves the whole     *)
(* state unchanged                                                         *)
C13_SeriesDurationReadOnly ==
    [][ (last'.op = "duration" /\ IsSeries(timeline)) =>
          /\ last'.exc # "None"
          /\ timeline' = timeline
      ]_vars

C13_Witness ==
    /\ IsSeries(timeline)
    /\ last.op = "duration"
    /\ last.exc = "AttributeError"
    /\ last.arg > timeline.duration

C16_Construction ==
    [][ last'.op = "Timeline" =>
          IF last'.arg < 0
          THEN last'.exc # "None" /\ timeline' = timeline
          ELSE /\ last'.exc = "None"
               /\ IsContinuous(timeline')
               /\ timeline'.start_time = last'.arg2
               /\ timeline'.duration = last'.arg
               /\ timeline'.end_time = last'.arg2 + last'.arg
               /\ Timeline_now(timeline') = timeline'.start_time
               /\ timeline'.direction = 0
               /\ timeline'.loop_enabled = last'.flag
      ]_vars

C16_Witness ==
    /\ IsContinuous(timeline)
    /\ last.op = "Timeline"
    /\ last.exc = "None"
    /\ last.arg2 < 0
    /\ last.arg > 0
    /\ timeline.head = -1

C18_IndexFreshAtBoundaries ==
    [][ ( /\ IsSeries(timeline)
          /\ StrictlyAscending(timeline.series)
          /\ \/ last'.op = "set"
             \/ /\ last'.op = "render"
                /\ \/ MovesBelow(timeline, last'.arg)
                   \/ MovesAbove(timeline, last'.arg) ) =>
          IndexFresh(timeline')
      ]_vars

(* C19: on an indexed clock with looping off a render that overflows       *)
(* backward leaves index == 0 and one that overflows forward leaves        *)
(* index == len(series) - 1; with looping on a render that wraps leaves    *)
(* index == getIndex(head after the wrap)                                  *)
C19_BoundaryIndex ==
    [][ (last'.op = "render" /\ IsSeries(timeline)) =>
          /\ (~timeline.loop_enabled /\ MovesBelow(timeline, last'.arg))
                => timeline'.index = 0
          /\ (~timeline.loop_enabled /\ MovesAbove(timeline, last'.arg))
                => timeline'.index = Len(timeline.series) - 1
          /\ ( /\ timeline.loop_enabled
               /\ \/ MovesBelow(timeline, last'.arg)
                  \/ MovesAbove(timeline, last'.arg) )
                => IndexFresh(timeline')
      ]_vars

C19_Witness ==
    /\ IsSeries(timeline)
    /\ last.op = "render"
    /\ last.branch = "forward_stop"
    /\ Len(timeline.series) = 2
    /\ timeline.index = 1

(* C20: on an indexed clock a render whose new head stays within           *)
(* [start, end] leaves index unchanged, as do play, pause, stop and loop;  *)
(* index changes only in set, in render's boundary branches, in the series *)
(* setter and in the index setter                                          *)
C20_IndexFrame ==
    [][ (IsSeries(timeline) /\ IsSeries(timeline')) =>
          /\ ( /\ last'.op = "render"
               /\ ~MovesBelow(timeline, last'.arg)
               /\ ~MovesAbove(timeline, last'.arg) )
                => timeline'.index = timeline.index
          /\ last'.op \in {"play", "pause", "stop", "loop"}
                => timeline'.index = timeline.index
          /\ timeline'.index # timeline.index
                => last'.op \in {"set", "render", "series", "index"}
      ]_vars

C20_Witness ==
    /\ IsSeries(timeline)
    /\ last.op = "render"
    /\ last.branch = "inside"
    /\ last.arg # 0
    /\ ~IndexFresh(timeline)
    /\ InWindow(timeline)

-----------------------------------------------------------------------------
(* a render(delta_t) call on self hits a boundary with looping off *)
BoundaryHit(self, delta_t) ==
    /\ ~self.loop_enabled
    /\ MovesBelow(self, delta_t) \/ MovesAbove(self, delta_t)

(* everything but head, direction and index is the same in self and other *)
SameWindow(self, other) ==
    /\ other.start_time = self.start_time
    /\ other.end_time = self.end_time
    /\ other.duration = self.duration
    /\ other.loop_enabled = self.loop_enabled
    /\ other.series = self.series
    /\ other.kind = self.kind

(* C21: replacing the series of an indexed clock with a non-empty          *)
(* non-decreasing s makes series == s, index == 0, start == s[0],          *)
(* end == s[-1], duration == s[-1] - s[0], whatever the state was          *)
C21_SeriesSetter ==
    [][ (last'.op = "series" /\ IsSeries(timeline)) =>
          LET s == last'.sarg
          IN  /\ last'.exc = "None"
              /\ timeline'.series = s
              /\ timeline'.index = 0
              /\ timeline'.start_time = s[1]
              /\ timeline'.end_time = s[Len(s)]
              /\ timeline'.duration = s[Len(s)] - s[1]
      ]_vars

C21_Witness ==
    /\ IsSeries(timeline)
    /\ last.op = "series"
    /\ Len(last.sarg) = 2
    /\ timeline.duration > 0
    /\ ~InWindow(timeline)
    /\ timeline.direction # 0

(* C22: pause() sets direction to 0 and leaves head, start, end, duration  *)
(* and loop_enabled unchanged in every state; a second pause() changes     *)
(* nothing more                                                            *)
C22_Pause ==
    [][ last'.op = "pause" =>
          /\ timeline'.direction = 0
          /\ timeline'.head = timeline.head
          /\ timeline'.index = timeline.index
          /\ SameWindow(timeline, timeline')
          /\ Timeline_pause(timeline') = timeline'
      ]_vars

C22_Witness ==
    /\ last.op = "pause"
    /\ timeline.head # timeline.start_time
    /\ InWindow(timeline)

(* C23: stop() from any state yields direction == 0 and                    *)
(* now() == current start, leaving start, end, duration and loop_enabled   *)
(* unchanged; a second stop() changes nothing more                         *)
C23_Stop ==
    [][ last'.op = "stop" =>
          /\ timeline'.direction = 0
          /\ Timeline_now(timeline') = timeline.start_time
          /\ SameWindow(timeline, timeline')
          /\ Timeline_stop(timeline') = timeline'
      ]_vars

C23_Witness ==
    /\ last.op = "stop"
    /\ timeline.start_time # 0
    /\ timeline.duration > 0

(* C24: after play(d) the clock is Playing (direction # 0) for every       *)
(* argument d, with direction == d and head, start, end, duration and      *)
(* loop_enabled unchanged; only a later pause, stop or non-looping         *)
(* boundary hit leaves Playing                                             *)
C24_PlayAlwaysPlaying ==
    [][ /\ last'.op = "play" =>
              /\ timeline'.direction # 0
              /\ timeline'.direction = last'.arg
              /\ timeline'.head = timeline.head
              /\ SameWindow(timeline, timeline')
        /\ (timeline.direction # 0 /\ timeline'.direction = 0 /\ last'.op # "Timeline") =>
              \/ last'.op \in {"pause", "stop"}
              \/ last'.op = "render" /\ BoundaryHit(timeline, last'.arg)
      ]_vars

(* C24, amended: after play(d) direction == d with head, start, end,       *)
(* duration and loop_enabled unchanged, so the clock is Playing exactly    *)
(* when d # 0; a Playing clock leaves Playing only by pause, stop, play(0) *)
(* or a non-looping boundary hit of render                                 *)
C24_PlaySetsDirection ==
    [][ /\ last'.op = "play" =>
              /\ timeline'.direction = last'.arg
              /\ timeline'.head = timeline.head
              /\ SameWindow(timeline, timeline')
        /\ (timeline.direction # 0 /\ timeline'.direction = 0 /\ last'.op # "Timeline") =>
              \/ last'.op \in {"pause", "stop"}
              \/ last'.op = "play" /\ last'.arg = 0
              \/ last'.op = "render" /\ BoundaryHit(timeline, last'.arg)
      ]_vars

C24_Witness ==
    /\ last.op = "play"
    /\ last.arg = 0
    /\ timeline.direction = 0
    /\ timeline.head # timeline.start_time

(* C25: set(t) never changes the play/pause state: direction,              *)
(* loop_enabled, start, end, duration and series are the same before and   *)
(* after set on both clock kinds; only head (and index on an indexed       *)
(* clock) may change                                                       *)
C25_SetFrame ==
    [][ last'.op = "set" =>
          /\ timeline'.direction = timeline.direction
          /\ SameWindow(timeline, timeline')
          /\ IsContinuous(timeline) => timeline'.index = timeline.index
      ]_vars

C25_Witness ==
    /\ last.op = "set"
    /\ timeline.direction # 0
    /\ timeline.head = last.arg
    /\ timeline.head # timeline.start_time

(* C29: assigning -1 to the index property selects the last sample         *)
(* (index == len(series) - 1); assigning any n >= 0 gives index == n       *)
C29_IndexSetter ==
    [][ (last'.op = "index" /\ last'.exc = "None") =>
          IF last'.arg = -1
          THEN timeline'.index = Len(timeline.series) - 1
          ELSE timeline'.index = last'.arg
      ]_vars

(* C30: on an indexed clock with a non-empty series the cached index is a  *)
(* valid position, 0 <= index <= len(series) - 1, after any sequence of    *)
(* set, render, play, pause, stop, loop and start/end/series setter calls  *)
C30_IndexValid ==
    [][ ( /\ IsSeries(timeline)
          /\ last'.op \in {"set", "render", "play", "pause", "stop", "loop",
                           "start", "end", "series"}
          /\ timeline.index \in 0..(Len(timeline.series) - 1) ) =>
          timeline'.index \in 0..(Len(timeline'.series) - 1)
      ]_vars

C28_RenderStopsWidget ==
    [][ ( /\ last'.op = "widgets.render"
          /\ widget.is_played
          /\ widget.timeline.direction # 0
          /\ BoundaryHit(widget.timeline, last'.arg) ) =>
          /\ last'.exc = "None"
          /\ ~widget'.is_played
          /\ widget'.is_stopped
      ]_vars

(* C26: an indexed clock exclusively owns its series: shifting one clock   *)
(* through its start or end setter never changes a list held by the        *)
(* caller, nor the series, bounds or getIndex results of another clock     *)
(* constructed from the same sequence                                      *)
C26_ExclusiveOwnership ==
    [][ last'.op \in {"start", "end"} =>
          /\ \A id \in ListIds : lists'[id] = lists[id]
          /\ \A c \in ClockIds \ {last'.target} :
                /\ View(c)'.series = View(c).series
                /\ View(c)'.start_time = View(c).start_time
                /\ View(c)'.end_time = View(c).end_time
                /\ \A t \in Timestamps :
                      TimelineWithSeries_getIndex(View(c)', t)
                          = TimelineWithSeries_getIndex(View(c), t)
      ]_vars

-----------------------------------------------------------------------------
(* C32: with looping enabled render never changes direction, for any       *)
(* delta_t, head and duration (duration == 0 and steps larger than         *)
(* duration included): a looping clock that is Playing keeps its           *)
(* direction until pause, stop, play or loop is called                     *)
C32_LoopingKeepsDirection ==
    [][ /\ (last'.op = "render" /\ timeline.loop_enabled) =>
              timeline'.direction = timeline.direction
        /\ ( /\ timeline.loop_enabled
             /\ timeline.direction # 0
             /\ timeline'.direction # timeline.direction
             /\ last'.op \notin {"Timeline", "TimelineWithSeries"} ) =>
              last'.op \in {"pause", "stop", "play"}
      ]_vars

C32_Witness ==
    /\ last.op = "render"
    /\ last.branch = "forward_wrap"
    /\ timeline.loop_enabled
    /\ timeline.duration = 0
    /\ timeline.direction = 2
    /\ timeline.head > timeline.end_time

C35_LookupCommutes ==
    [][ (last'.op \in {"start", "end"} /\ IsSeries(timeline)) =>
          LET n == Len(timeline.series)
              o == IF last'.op = "start" THEN last'.arg - timeline.series[1]
                   ELSE last'.arg - timeline.series[n]
          IN  /\ \A t \in Timestamps :
                    TimelineWithSeries_getIndex(timeline', t + o)
                        = TimelineWithSeries_getIndex(timeline, t)
              /\ \A i \in 0..(n - 1) :
                    TimelineWithSeries_getTimestamp(timeline', i)
                        = Return(timeline', TimelineWithSeries_getTimestamp(timeline, i).ret + o)
      ]_vars

C35_Witness ==
    /\ IsSeries(timeline)
    /\ last.op = "end"
    /\ Len(timeline.series) = 2
    /\ timeline.series[1] < timeline.series[2]
    /\ timeline.series[2] = last.arg
    /\ timeline.series[1] < 0

(* C36: in the widget layer is_played and is_stopped are never both True:  *)
(* after any sequence of play(), pause(), stop(), resetIsStopped() and     *)
(* render() calls, play() gives (True, False) unless duration == 0,        *)
(* pause() gives (False, False) and stop() gives (False, True)             *)
C36_PlayedStoppedExclusive ==
    [][ /\ ~(widget.is_played /\ widget.is_stopped)
        /\ ~(widget'.is_played /\ widget'.is_stopped)
        /\ (last'.op = "widgets.play" /\ widget.timeline.duration # 0) =>
              (widget'.is_played /\ ~widget'.is_stopped)
        /\ last'.op = "widgets.pause" =>
              (~widget'.is_played /\ ~widget'.is_stopped)
        /\ last'.op = "widgets.stop" =>
              (~widget'.is_played /\ widget'.is_stopped)
      ]_vars

C36_Witness ==
    /\ last.op = "widgets.stop"
    /\ last.exc = "None"
    /\ widget.is_stopped
    /\ ~widget.is_played
    /\ ~widget.stop_enabled
    /\ widget.timeline.duration > 0

(* C37: TimelineWidgets.play() on a clock whose duration is 0 is a         *)
(* complete no-op: is_played and is_stopped keep their values and the      *)
(* clock's direction stays unchanged, so play() never puts a               *)
(* zero-duration timeline into the Playing state                           *)
C37_PlayZeroDurationNoOp ==
    [][ (last'.op = "widgets.play" /\ widget.timeline.duration = 0) =>
          /\ last'.exc = "None"
          /\ widget'.is_played = widget.is_played
          /\ widget'.is_stopped = widget.is_stopped
          /\ widget'.timeline.direction = widget.timeline.direction
          /\ widget' = widget
      ]_vars

C37_Witness ==
    /\ last.op = "widgets.play"
    /\ widget.timeline.duration = 0
    /\ widget.created
    /\ widget.is_stopped
    /\ widget.timeline.direction = 0

-----------------------------------------------------------------------------
(* the Stopped state of the clock *)
IsStopped(self) == self.direction = 0 /\ Timeline_now(self) = self.start_time

(* C31: with looping disabled, duration > 0, a fixed non-zero direction    *)
(* and render called every tick with a fixed delta_t > 0 and nothing       *)
(* else, the clock eventually reaches the Stopped state (direction == 0,   *)
(* now() == start) and stays there for all further render calls            *)
C31_EventuallyStopped ==
    ( /\ ~timeline.loop_enabled
      /\ timeline.duration > 0
      /\ timeline.direction # 0
      /\ frame_time > 0 ) ~> [] IsStopped(timeline)

C31_Witness ==
    /\ last.op = "render"
    /\ last.branch = "forward_stop"
    /\ frame_time > 0
    /\ ~timeline.loop_enabled
    /\ timeline.duration > 0
    /\ timeline.start_time # 0
    /\ IsStopped(timeline)

(* a looping clock whose head is outside the window and whose step per    *)
(* frame is shorter than the window                                        *)
OutsideWithSmallStep ==
    /\ timeline.loop_enabled
    /\ timeline.duration > 0
    /\ ~InWindow(timeline)
    /\ 0 < Abs(Step(timeline, frame_time))
    /\ Abs(Step(timeline, frame_time)) < timeline.duration

(* C33: with looping enabled and duration > 0, if head is outside          *)
(* [start, end] and render is then called every tick with a fixed step     *)
(* s = delta_t * direction, 0 < |s| < duration, head eventually re-enters  *)
(* [start, end] and stays inside from then on                              *)
C33_HeadReenters == OutsideWithSmallStep ~> [] InWindow(timeline)

C33_Witness ==
    /\ last.op = "render"
    /\ last.branch = "forward_wrap"
    /\ OutsideWithSmallStep

====
